---- MODULE Spec2Model ----
(***************************************************************************)
(* fbundle (src/main.rs): walk a source directory, select the regular      *)
(* files the ordered include/exclude glob list accepts, and append for     *)
(* each one a separator+path line followed by the file's contents to one   *)
(* output file.                                                            *)
(*                                                                         *)
(* Strings are sequences of tokens.  A path is the sequence of its         *)
(* components; a pattern is the sequence of its leading '!' characters     *)
(* followed by one token holding the glob body.                            *)
(***************************************************************************)
EXTENDS Integers, Sequences, FiniteSets, TLC

\* ------------------------------------------------------------------ bounds
MaxPatterns == 2        \* longest --src-globs list explored
MaxWalk == 4            \* most entries the walker yields in one run

\* ------------------------------------------------------- the environment
\* Regular files below the source root, by path relative to the root.
Files == { <<"a.txt">>, <<"b.log">>, <<"src", "a.rs">>, <<"src", "a_test.rs">> }

\* Directories the walker yields: the root itself (depth 0) and src/.
Dirs == { <<>>, <<"src">> }

\* The text of each file when it reads as valid UTF-8.
FileText(rel) ==
    IF rel = <<"a.txt">> THEN <<"hello">>
    ELSE IF rel = <<"b.log">> THEN <<"x">>
    ELSE <<"fn">>

\* Glob bodies that do not compile: "[" is an unclosed character class.
MalformedBodies == { "[" }

\* The files (relative to the directory the glob is rooted at) that the
\* expansion of a well-formed body yields on this file system.
GlobTable(body) ==
    IF body = "**/*.rs" THEN { <<"src", "a.rs">>, <<"src", "a_test.rs">> }
    ELSE IF body = "**/*_test.rs" THEN { <<"src", "a_test.rs">> }
    ELSE IF body = "*.txt" THEN { <<"a.txt">> }
    ELSE {}

\* The pattern strings of the command line: include patterns, exclude
\* patterns behind one '!', one behind two, and one that does not compile.
PatternUniverse ==
    { <<"**/*.rs">>, <<"*.txt">>, <<"[">>,
      <<"!", "**/*_test.rs">>, <<"!", "**/*.rs">>, <<"!", "!", "*.txt">> }

PatternLists ==
    UNION { [1..n -> PatternUniverse] : n \in 0..MaxPatterns }

\* --file-sep values: a plain one, and one that carries the two characters
\* backslash, 'n'.
FileSeps == { <<"-", "-", "-">>, <<"#", "#", "\\", "n">> }

SrcDirs == { <<"proj">> }

VARIABLES
    args,       \* the parsed command line (FileBundle)
    pc,         \* position of main: "start", "walk", "done", "failed"
    out_file,   \* the bytes of the output file, in order
    visited,    \* the walker's results so far, with what main did with each
    walker,     \* what the loop over the patterns gave the WalkBuilder
    stdout,     \* the lines println! wrote
    result,     \* what main returned: "none", "Ok", "Err"
    cause       \* the error main returned, "none" when there is none

vars == <<args, pc, out_file, visited, walker, stdout, result, cause>>

\* ------------------------------------------------------- path helpers
RECURSIVE display(_)
\* Path::display: the components joined by '/'.
display(path) ==
    IF Len(path) = 0 THEN <<>>
    ELSE IF Len(path) = 1 THEN <<path[1]>>
    ELSE <<path[1], "/">> \o display(Tail(path))

\* Path::join for a relative right-hand side.
join(base, rel) == base \o rel

IsPrefix(p, s) == Len(p) <= Len(s) /\ SubSeq(s, 1, Len(p)) = p

\* file_path.strip_prefix(base_dir).unwrap_or(file_path)
relative_path(file_path, base_dir) ==
    IF IsPrefix(base_dir, file_path)
    THEN SubSeq(file_path, Len(base_dir) + 1, Len(file_path))
    ELSE file_path

\* Path::new(&args.out_dir).join(format!("{}{}", args.bundle_name, args.dst_ext))
out_path == <<".", "/", "file_bundle", ".txt">>

\* ------------------------------------------------------- should_include_file
starts_with_bang(pattern) == Len(pattern) > 0 /\ pattern[1] = "!"

RECURSIVE trim_start_matches(_)
\* pattern.trim_start_matches('!'): every leading '!' is removed.
trim_start_matches(pattern) ==
    IF starts_with_bang(pattern) THEN trim_start_matches(Tail(pattern))
    ELSE pattern

\* glob_with(&full_pattern, options): Err for a body that does not compile,
\* otherwise the paths of the expansion, each carrying the pattern's root.
glob_with(full_pattern) ==
    LET body == full_pattern[Len(full_pattern)]
        root == SubSeq(full_pattern, 1, Len(full_pattern) - 1)
    IN  IF body \in MalformedBodies
        THEN [ok |-> FALSE, paths |-> {}]
        ELSE [ok |-> TRUE, paths |-> { join(root, r) : r \in GlobTable(body) }]

MatchArmDropsExclude(is_exclude, matched) ==
    IF ~is_exclude /\ matched THEN "true" ELSE "next"

\* The Ok arm of the match: return false, return true, or go on.
MatchArm(is_exclude, matched) ==
    IF is_exclude /\ matched THEN "false"
    ELSE IF ~is_exclude /\ matched THEN "true"
    ELSE "next"

ErrArmReturnsFalse == "false"

\* The Err arm of the match: eprintln! and continue.
ErrArm == "next"

FallThroughIncludes == TRUE

\* The value returned when the loop over the patterns ends.
FallThrough == FALSE

RECURSIVE EvalPatterns(_, _, _, _)
\* The loop of should_include_file from the i-th pattern on.
EvalPatterns(file_path, patterns, base_dir, i) ==
    IF i > Len(patterns) THEN FallThrough
    ELSE
        LET pattern == patterns[i]
            is_exclude == starts_with_bang(pattern)
            full_pattern == join(base_dir, trim_start_matches(pattern))
            globbed == glob_with(full_pattern)
            matched == file_path \in globbed.paths
            arm == IF globbed.ok THEN MatchArm(is_exclude, matched) ELSE ErrArm
        IN  IF arm = "next"
            THEN EvalPatterns(file_path, patterns, base_dir, i + 1)
            ELSE arm = "true"

should_include_file(file_path, patterns, base_dir) ==
    EvalPatterns(file_path, patterns, base_dir, 1)

\* ------------------------------------------------------- the records
\* write!(out_file, "{} {}\n", args.file_sep, path.display())
HeaderLine(file_sep, path) == file_sep \o <<" ">> \o display(path) \o <<"\n">>

\* write!(out_file, "{}\n", contents)
BodyLines(contents) == contents \o <<"\n">>

\* ------------------------------------------------------- the walker
YieldedPaths == { visited[i].rel : i \in { j \in 1..Len(visited) : visited[j].kind # "err" } }

\* The walker yields a directory before what lies in it, and no path twice.
\* Which of the paths it yields at all (hidden files, ignore rules) is left open.
CanYield(rel) ==
    /\ rel \notin YieldedPaths
    /\ rel # <<>> => SubSeq(rel, 1, Len(rel) - 1) \in YieldedPaths

Visit(kind, rel, included, read, wrote) ==
    [kind |-> kind, rel |-> rel, included |-> included, read |-> read, wrote |-> wrote]

\* ------------------------------------------------------- main
Init ==
    /\ args \in [src_globs : PatternLists, file_sep : FileSeps, src_dir : SrcDirs]
    /\ pc = "start"
    /\ out_file = <<>>
    /\ visited = <<>>
    /\ walker = [ignore |-> {}, custom_ignore_filenames |-> {}]
    /\ stdout = <<>>
    /\ result = "none"
    /\ cause = "none"

\* File::create succeeds; every '!' pattern is handed, trimmed, to add_ignore
\* and every other pattern to add_custom_ignore_filename; the walker is built.
CreateOutput ==
    /\ pc = "start"
    /\ pc' = "walk"
    /\ LET globs == { args.src_globs[k] : k \in 1..Len(args.src_globs) }
       IN  walker' =
               [ignore |-> { trim_start_matches(g) : g \in { h \in globs : starts_with_bang(h) } },
                custom_ignore_filenames |-> { g \in globs : ~starts_with_bang(g) }]
    /\ UNCHANGED <<args, out_file, visited, stdout, result, cause>>

\* File::create(&out_path)? fails.
CreateOutputFails ==
    /\ pc = "start"
    /\ pc' = "failed"
    /\ result' = "Err"
    /\ cause' = "create"
    /\ UNCHANGED <<args, out_file, visited, walker, stdout>>

\* The walker yields Err(e): println!("Error: {}", e).
VisitError ==
    /\ pc = "walk"
    /\ Len(visited) < MaxWalk
    /\ visited' = Append(visited, Visit("err", <<>>, FALSE, "none", 0))
    /\ stdout' = Append(stdout, <<"Error: ">>)
    /\ UNCHANGED <<args, pc, out_file, walker, result, cause>>

\* The walker yields an entry that is not a regular file.
VisitDir ==
    /\ pc = "walk"
    /\ Len(visited) < MaxWalk
    /\ \E rel \in Dirs :
        /\ CanYield(rel)
        /\ visited' = Append(visited, Visit("dir", rel, FALSE, "none", 0))
    /\ UNCHANGED <<args, pc, out_file, walker, stdout, result, cause>>

\* A regular file that should_include_file rejects.
SkipFile ==
    /\ pc = "walk"
    /\ Len(visited) < MaxWalk
    /\ \E rel \in Files :
        LET path == join(args.src_dir, rel) IN
        /\ CanYield(rel)
        /\ ~should_include_file(path, args.src_globs, args.src_dir)
        /\ visited' = Append(visited, Visit("file", rel, FALSE, "none", 0))
    /\ UNCHANGED <<args, pc, out_file, walker, stdout, result, cause>>

\* A selected file: both writes and the read succeed.
BundleFile ==
    /\ pc = "walk"
    /\ Len(visited) < MaxWalk
    /\ \E rel \in Files :
        LET path == join(args.src_dir, rel) IN
        /\ CanYield(rel)
        /\ should_include_file(path, args.src_globs, args.src_dir)
        /\ out_file' = out_file \o HeaderLine(args.file_sep, path)
                                \o BodyLines(FileText(rel))
        /\ visited' = Append(visited, Visit("file", rel, TRUE, "ok", 2))
    /\ UNCHANGED <<args, pc, walker, stdout, result, cause>>

\* A selected file: the first write! fails and `?` returns the error.
HeaderWriteFails ==
    /\ pc = "walk"
    /\ Len(visited) < MaxWalk
    /\ \E rel \in Files :
        LET path == join(args.src_dir, rel) IN
        /\ CanYield(rel)
        /\ should_include_file(path, args.src_globs, args.src_dir)
        /\ visited' = Append(visited, Visit("file", rel, TRUE, "none", 0))
    /\ pc' = "failed"
    /\ result' = "Err"
    /\ cause' = "write"
    /\ UNCHANGED <<args, out_file, walker, stdout>>

\* A selected file: the header is written, then fs::read_to_string(path)?
\* fails (the file is unreadable, or its bytes are not valid UTF-8).
ReadFails ==
    /\ pc = "walk"
    /\ Len(visited) < MaxWalk
    /\ \E rel \in Files, why \in {"unreadable", "invalid_utf8"} :
        LET path == join(args.src_dir, rel) IN
        /\ CanYield(rel)
        /\ should_include_file(path, args.src_globs, args.src_dir)
        /\ out_file' = out_file \o HeaderLine(args.file_sep, path)
        /\ visited' = Append(visited, Visit("file", rel, TRUE, why, 1))
        /\ cause' = why
    /\ pc' = "failed"
    /\ result' = "Err"
    /\ UNCHANGED <<args, walker, stdout>>

\* A selected file: header written, contents read, the second write! fails.
BodyWriteFails ==
    /\ pc = "walk"
    /\ Len(visited) < MaxWalk
    /\ \E rel \in Files :
        LET path == join(args.src_dir, rel) IN
        /\ CanYield(rel)
        /\ should_include_file(path, args.src_globs, args.src_dir)
        /\ out_file' = out_file \o HeaderLine(args.file_sep, path)
        /\ visited' = Append(visited, Visit("file", rel, TRUE, "ok", 1))
    /\ pc' = "failed"
    /\ result' = "Err"
    /\ cause' = "write"
    /\ UNCHANGED <<args, walker, stdout>>

\* The walker is exhausted: println!("Bundle created at: ..."); Ok(()).
Finish ==
    /\ pc = "walk"
    /\ pc' = "done"
    /\ stdout' = Append(stdout, <<"Bundle created at: ">> \o out_path)
    /\ result' = "Ok"
    /\ UNCHANGED <<args, out_file, visited, walker, cause>>

Next ==
    \/ CreateOutput
    \/ CreateOutputFails
    \/ VisitError
    \/ VisitDir
    \/ SkipFile
    \/ BundleFile
    \/ HeaderWriteFails
    \/ ReadFails
    \/ BodyWriteFails
    \/ Finish

Spec == Init /\ [][Next]_vars

\* ------------------------------------------------------- vocabulary of the properties
FileVisits == { i \in 1..Len(visited) : visited[i].kind = "file" }

PathOf(i) == join(args.src_dir, visited[i].rel)

\* s contains h as a contiguous run of bytes.
Occurs(h, s) ==
    \E k \in 0..(Len(s) - Len(h)) : SubSeq(s, k + 1, k + Len(h)) = h

\* The pattern compiles and its expansion holds the path.
Matches(pattern, path) ==
    LET globbed == glob_with(join(args.src_dir, trim_start_matches(pattern)))
    IN  globbed.ok /\ path \in globbed.paths

MatchingIdx(path) ==
    { k \in 1..Len(args.src_globs) : Matches(args.src_globs[k], path) }

MinOf(S) == CHOOSE m \in S : \A x \in S : m <= x

MaxOf(S) == CHOOSE m \in S : \A x \in S : m >= x

IsIncludePattern(pattern) == ~starts_with_bang(pattern)

IsWellFormed(pattern) == pattern[Len(pattern)] \notin MalformedBodies

RECURSIVE unescape(_)
\* Every backslash followed by 'n' becomes one newline.
unescape(s) ==
    IF Len(s) < 2 THEN s
    ELSE IF s[1] = "\\" /\ s[2] = "n"
         THEN <<"\n">> \o unescape(SubSeq(s, 3, Len(s)))
         ELSE <<s[1]>> \o unescape(Tail(s))

RECURSIVE CompleteRecords(_)
\* s is a concatenation of records "<sep> <path>\n<content>\n", the content
\* being a file's text or empty.
CompleteRecords(s) ==
    \/ s = <<>>
    \/ \E rel \in Files : \E body \in { FileText(rel), <<>> } :
        LET rec == HeaderLine(args.file_sep, join(args.src_dir, rel)) \o BodyLines(body)
        IN  IsPrefix(rec, s) /\ CompleteRecords(SubSeq(s, Len(rec) + 1, Len(s)))

RECURSIVE ExpectedBundle(_)
\* One record per selected file of the walk v, in the walk's order.
ExpectedBundle(v) ==
    IF v = <<>> THEN <<>>
    ELSE
        LET e == v[Len(v)]
            rec == IF e.kind = "file" /\ e.included
                   THEN HeaderLine(args.file_sep, join(args.src_dir, e.rel))
                        \o BodyLines(IF e.read = "ok" THEN FileText(e.rel) ELSE <<>>)
                   ELSE <<>>
        IN  ExpectedBundle(SubSeq(v, 1, Len(v) - 1)) \o rec

\* ------------------------------------------------------- properties

\* C1: the decision for every visited file is that of the LAST pattern of the
\* list that matches it: included iff that pattern is an include pattern,
\* excluded when no pattern matches.
C1_LastMatchWins ==
    \A i \in FileVisits :
        LET m == MatchingIdx(PathOf(i))
        IN  visited[i].included
                = (m # {} /\ IsIncludePattern(args.src_globs[MaxOf(m)]))

C3_DefaultDeny ==
    \A rel \in Files :
        MatchingIdx(join(args.src_dir, rel)) = {}
            => /\ ~Occurs(display(rel) \o <<"\n">>, out_file)
               /\ \A i \in FileVisits : visited[i].rel = rel => ~visited[i].included

\* A finished run with a non-empty pattern list and a non-empty bundle that
\* visited a file no pattern matches.
C3_Witness ==
    /\ pc = "done"
    /\ args.src_globs # <<>>
    /\ out_file # <<>>
    /\ \E i \in FileVisits : MatchingIdx(PathOf(i)) = {}

\* C4: a selected file whose bytes are not valid UTF-8 still gets a record,
\* its separator line followed by an empty body, and the run does not fail.
C4_NonUtf8EmptyBody ==
    \A i \in FileVisits :
        visited[i].read = "invalid_utf8"
            => /\ Occurs(HeaderLine(args.file_sep, PathOf(i)) \o BodyLines(<<>>), out_file)
               /\ result # "Err"

\* C5: the record of a selected, readable file is "<sep> R\n<C>\n" with R the
\* path relative to the source root.
C5_RelativePathRecord ==
    \A i \in FileVisits :
        visited[i].wrote = 2
            => Occurs(HeaderLine(args.file_sep, relative_path(PathOf(i), args.src_dir))
                          \o BodyLines(FileText(visited[i].rel)),
                      out_file)

\* C6: a per-file error (unreadable file, invalid UTF-8) never makes the run
\* end in failure.
C6_PerFileErrorsAbsorbed ==
    result = "Err" => cause \notin {"unreadable", "invalid_utf8"}

\* C7: at every record boundary and in every final state the output is a
\* concatenation of complete records.
C7_AtomicRecords == CompleteRecords(out_file)

\* C8: every separator line written carries the separator with each
\* backslash-n replaced by a newline.
C8_SeparatorUnescaped ==
    \A i \in FileVisits :
        visited[i].wrote >= 1
            => Occurs(HeaderLine(unescape(args.file_sep), PathOf(i)), out_file)

\* C9: the decision for every visited file equals the decision under the same
\* list with the malformed patterns removed.
C9_MalformedSkipped ==
    \A i \in FileVisits :
        visited[i].included
            = should_include_file(PathOf(i),
                                  SelectSeq(args.src_globs, IsWellFormed),
                                  args.src_dir)

\* A finished run that selected a file through an include pattern standing
\* behind a malformed pattern.
C9_Witness ==
    /\ pc = "done"
    /\ \E i \in FileVisits :
        /\ visited[i].included
        /\ ~IsWellFormed(args.src_globs[1])
        /\ MatchingIdx(PathOf(i)) # {}

\* C10: the output holds exactly one record for each selected file, in the
\* order the walker yielded them (failures of the output device aside).
C10_WalkerOrder ==
    cause # "write" => out_file = ExpectedBundle(visited)

====
